---- MODULE Spec2Model ----
(***************************************************************************)
(* The EventLog service of src/eventlog/service.go: the bucket chain that  *)
(* contractFunction builds in the ledger's collection, one transaction at  *)
(* a time, and the Search that walks it.                                   *)
(*                                                                         *)
(* Time is counted in seconds.  The collection is a function from object   *)
(* ids to values; an object id is a pair <<label, n>>: the ObjectID of the *)
(* n-th transaction is <<"obj", n>>, tx.DeriveID(what) is <<what, n>>, and *)
(* theEventLog (the key of the head pointer) is <<"index", 0>>.  A nil or  *)
(* empty byte slice is the empty sequence <<>>.  The collection holds the  *)
(* values decoded: an event, a bucket, or the id the head pointer names.   *)
(* In Spec and SearchSpec the clock never goes backward; in ClockSpec the   *)
(* wall clock that time.Now() reads can be set to any time; in CorruptSpec *)
(* the collection can lose one of its records; in LongSpec the clock runs  *)
(* forward for longer than bucketMaxAge, so that buckets age.              *)
(***************************************************************************)
EXTENDS Integers, Sequences, FiniteSets, TLC

VARIABLES
    now,        \* the wall clock that time.Now() reads
    coll,       \* the ledger's collection: object id -> value
    ntx,        \* number of transactions accepted so far (names the next ObjectID)
    last,       \* what the last operation was given and what it returned
    prior       \* the response before `last`, when `last` re-issues a search

vars == <<now, coll, ntx, last, prior>>

----------------------------------------------------------------------------
\* Bounds of the model.

\* The clock starts here and ...
StartTime == 6
\* ... advances for this many seconds.
MaxTicks == 1
\* Transactions accepted in one run.
MaxEvents == 3
\* Follow-up searches of one paginated search.
MaxPages == 2
\* The package variable searchMax (10000 in the source, where the tests set
\* it lower): the most events one Search returns.
searchMax == 2

\* The latest time the wall clock is set to.
ClockMax == 10

\* The time up to which the clock runs in a long run.
Horizon == 13

MaxTime == StartTime + MaxTicks

Topics == {"a", "b"}

----------------------------------------------------------------------------
\* Program constants.

\* bucketMaxAge: 5 * time.Second
bucketMaxAge == 5
\* decodeAndCheckEvent: now.Add(-5 * time.Second)
maxPast == 5

contractName == "eventlog"

theEventLog == <<"index", 0>>

NoErr == ""

----------------------------------------------------------------------------
\* The store adapter: eventLog.getLatestBucket, eventLog.getBucketByID,
\* bucket.isFirst and getEventByID.  A lookup that fails returns its error
\* and no bucket (a nil *bucket): the b and ev given with an error here
\* stand for nil and are never read as a bucket or an event.

isFirst(b) == Len(b.Prev) = 0

getBucketByID(v, id) ==
    IF id \in DOMAIN v /\ v[id].kind = "bucket"
    THEN [err |-> NoErr, b |-> v[id].b]
    ELSE [err |-> "bucket not found", b |-> [Start |-> 0, Prev |-> <<>>, EventRefs |-> <<>>]]

getLatestBucket(v) ==
    IF theEventLog \notin DOMAIN v
    THEN [err |-> "errIndexMissing", id |-> <<>>, b |-> [Start |-> 0, Prev |-> <<>>, EventRefs |-> <<>>]]
    ELSE LET r == getBucketByID(v, v[theEventLog].id)
         IN  [err |-> r.err, id |-> v[theEventLog].id, b |-> r.b]

getEventByID(v, objID) ==
    IF objID \in DOMAIN v /\ v[objID].kind = "event"
    THEN [err |-> NoErr, ev |-> v[objID].ev]
    ELSE [err |-> "event not found", ev |-> [When |-> 0, Topic |-> ""]]

----------------------------------------------------------------------------
\* decodeAndCheckEvent

\* An event exactly 5 seconds old counted as too old.
tooLongAgo_inclusive(when, tnow) == when <= tnow - maxPast

\* when.Before(now.Add(-5 * time.Second))
tooLongAgo(when, tnow) == when < tnow - maxPast

\* when.After(now)
inTheFuture(when, tnow) == when > tnow

decodeAndCheckEvent(eventBuf, tnow) ==
    IF ~eventBuf.wellFormed
    THEN [err |-> "decode error", event |-> eventBuf.ev]
    ELSE IF tooLongAgo(eventBuf.ev.When, tnow)
    THEN [err |-> "event timestamp too long ago", event |-> eventBuf.ev]
    ELSE IF inTheFuture(eventBuf.ev.When, tnow)
    THEN [err |-> "event timestamp is in the future", event |-> eventBuf.ev]
    ELSE [err |-> NoErr, event |-> eventBuf.ev]

----------------------------------------------------------------------------
\* contractFunction

NewStateChange(action, id, cid, value) ==
    [StateAction |-> action, ObjectID |-> id, ContractID |-> cid, Value |-> value]

\* The derived id not depending on what it is derived for.
DeriveID_ignoresWhat(tx, what) == tx.ObjectID

DeriveID(tx, what) == <<what, tx.ObjectID[2]>>

\* The loop of lines 284-294: from bucket b (id bID) back towards the
\* sentinel, until a bucket with Start <= when.
\* The break taken only when the bucket starts before the event.
stopsAt_strict(b, when) == isFirst(b) \/ b.Start < when

\* The comparison of the break turned round.
stopsAt_reversed(b, when) == isFirst(b) \/ b.Start >= when

\* The walk stopping at the head whatever the event's When.
stopsAt_headOnly(b, when) == TRUE

\* The walk stops at bucket b: the loop's condition and its break.
stopsAt(b, when) == isFirst(b) \/ b.Start <= when

\* The walk making do with the last bucket it could read when a Prev does
\* not resolve.
RECURSIVE walkBack_ignoresError(_, _, _, _, _)
walkBack_ignoresError(v, bID, b, when, isHead) ==
    IF stopsAt(b, when)
    THEN [err |-> NoErr, bID |-> bID, b |-> b, isHead |-> isHead]
    ELSE LET r == getBucketByID(v, b.Prev)
         IN  IF r.err # NoErr
             THEN [err |-> NoErr, bID |-> bID, b |-> b, isHead |-> isHead]
             ELSE walkBack_ignoresError(v, b.Prev, r.b, when, FALSE)

RECURSIVE walkBack(_, _, _, _, _)
walkBack(v, bID, b, when, isHead) ==
    IF stopsAt(b, when)
    THEN [err |-> NoErr, bID |-> bID, b |-> b, isHead |-> isHead]
    ELSE LET r == getBucketByID(v, b.Prev)
         IN  IF r.err # NoErr
             THEN [err |-> r.err, bID |-> b.Prev, b |-> r.b, isHead |-> FALSE]
             ELSE walkBack(v, b.Prev, r.b, when, FALSE)

\* An error returned together with a state change.
Rejected_withChange(msg) ==
    [scs |-> <<[StateAction |-> "Create", ObjectID |-> <<"obj", 0>>,
                ContractID |-> contractName,
                Value |-> [kind |-> "event", ev |-> [When |-> 0, Topic |-> ""]]]>>,
     err |-> msg]

\* Every error return of contractFunction: return nil, nil, err.
Rejected(msg) == [scs |-> <<>>, err |-> msg]

\* A head bucket whose age is exactly bucketMaxAge counted as too old.
needsNewHead_atMaxAge(none, isHead, when, b) ==
    none \/ (isHead /\ when - b.Start >= bucketMaxAge)

\* The age looked at whichever bucket the walk stopped at, head or not.
needsNewHead_anyBucket(none, isHead, when, b) ==
    none \/ when - b.Start > bucketMaxAge

\* A new head bucket made for every event that the walk stops at the head for.
needsNewHead_everyEvent(none, isHead, when, b) == none \/ isHead

\* A new head bucket made for the first event only.
needsNewHead_onlyFirst(none, isHead, when, b) == none

\* Line 300: make a new head bucket (none: the log has no head pointer).
needsNewHead(none, isHead, when, b) ==
    none \/ (isHead /\ when - b.Start > bucketMaxAge)

\* The new head's Prev without line 318: the first head bucket is not linked
\* to the catch-all bucket.
newHeadPrev_unlinked(none, catchID, bID) == bID

\* What the new head bucket's Prev is: bID, which line 318 sets to the
\* catch-all bucket's id when there was no bucket.
newHeadPrev(none, catchID, bID) == IF none THEN catchID ELSE bID

\* The pointer written as an Update also when it does not exist yet.
pointerAction_update(none) == "Update"

\* The pointer written as a Create also when it exists already.
pointerAction_create(none) == "Create"

\* Lines 334-337: the pointer to the latest bucket is created or updated.
pointerAction(none) == IF none THEN "Create" ELSE "Update"

\* Lines 300-354: the state changes after the event's own Create, for the
\* bucket the walk stopped at.
placeEvent(tx, cid, event, none, bID, b, isHead) ==
    IF needsNewHead(none, isHead, event.When, b)
    THEN LET newBid == DeriveID(tx, "bucket")
             catchID == DeriveID(tx, "catch-all")
             catch == IF none
                      THEN <<NewStateChange("Create", catchID, cid,
                               [kind |-> "bucket",
                                b |-> [Start |-> 0, Prev |-> <<>>, EventRefs |-> <<>>]])>>
                      ELSE <<>>
             newb == [Start |-> event.When, Prev |-> newHeadPrev(none, catchID, bID),
                      EventRefs |-> <<tx.ObjectID>>]
         IN  catch
             \o <<NewStateChange("Create", newBid, cid, [kind |-> "bucket", b |-> newb])>>
             \o <<NewStateChange(pointerAction(none), theEventLog, cid,
                                 [kind |-> "pointer", id |-> newBid])>>
    ELSE <<NewStateChange("Update", bID, contractName,
             [kind |-> "bucket",
              b |-> [b EXCEPT !.EventRefs = Append(b.EventRefs, tx.ObjectID)]])>>

contractFunction(v, tx, tnow) ==
    IF tx.Delete THEN Rejected("delete tx not allowed")
    ELSE IF tx.Invoke THEN Rejected("invoke tx not allowed")
    ELSE IF ~tx.Spawn THEN Rejected("expected a spawn tx")
    ELSE IF ~tx.hasEvent THEN Rejected("expected a named argument of \"event\"")
    ELSE
    LET cid == tx.ContractID
        d == decodeAndCheckEvent(tx.eventBuf, tnow)
        event == d.event
        first == <<NewStateChange("Create", tx.ObjectID, cid,
                                  [kind |-> "event", ev |-> event])>>
        h == getLatestBucket(v)
        none == h.err = "errIndexMissing"
        w == IF none
             THEN [err |-> NoErr, bID |-> <<>>, b |-> h.b, isHead |-> TRUE]
             ELSE walkBack(v, h.id, h.b, event.When, TRUE)
    IN  IF d.err # NoErr THEN Rejected(d.err)
        ELSE IF h.err # NoErr /\ ~none THEN Rejected(h.err)
        ELSE IF w.err # NoErr THEN Rejected(w.err)
        ELSE [scs |-> first \o placeEvent(tx, cid, event, none, w.bID, w.b, w.isHead),
              err |-> NoErr]

\* The ledger applies the state changes of an accepted transaction in order.
RECURSIVE applyChanges(_, _)
applyChanges(v, scs) ==
    IF scs = <<>> THEN v
    ELSE LET sc == Head(scs)
             v2 == [k \in DOMAIN v \cup {sc.ObjectID} |->
                        IF k = sc.ObjectID THEN sc.Value ELSE v[k]]
         IN  applyChanges(v2, Tail(scs))

----------------------------------------------------------------------------
\* Search

\* Lines 148-174: the buckets (with their ids) that overlap the search
\* range, from bucket b (id) back, newest first.
\* The walk stopping already at a bucket that ends where the range starts.
beforeRange_inclusive(req, bEnd) == req.From >= bEnd

\* Line 149: the bucket that ends at bEnd is before the search range.
beforeRange(req, bEnd) == req.From > bEnd

\* Line 154: bucket b is after the search range.
afterRange(req, b) == req.To < b.Start

\* The time range alone, the topic not looked at.
matches_anyTopic(req, ev) == req.From <= ev.When /\ ev.When < req.To

\* Lines 191-192: the event is in the range and of the topic asked for.
matches(req, ev) ==
    /\ req.From <= ev.When /\ ev.When < req.To
    /\ (req.Topic = "" \/ req.Topic = ev.Topic)

\* The reply taken as full one event too late.
isFull_late(n, smax) == n > smax

\* Line 194: the reply is full.
isFull(n, smax) == n >= smax

RECURSIVE searchWalk(_, _, _, _, _, _)
searchWalk(v, req, id, b, bEnd, buckets) ==
    IF beforeRange(req, bEnd)
    THEN [err |-> NoErr, buckets |-> buckets]
    ELSE LET kept == IF afterRange(req, b)
                     THEN buckets
                     ELSE Append(buckets, [id |-> id, b |-> b])
         IN  IF isFirst(b)
             THEN [err |-> NoErr, buckets |-> kept]
             ELSE LET r == getBucketByID(v, b.Prev)
                  IN  IF r.err # NoErr
                      THEN [err |-> r.err, buckets |-> kept]
                      ELSE searchWalk(v, req, b.Prev, r.b, b.Start, kept)

\* Lines 181-201: buckets[i], from event reference j on; reply holds the
\* events found so far.  refs (the addresses of the events in Events), reads
\* (the number of event references read) and bids (the ids of the buckets
\* kept by the walk) are not part of the Go response: they tell equal events
\* apart and record the work done.
RECURSIVE filter(_, _, _, _, _, _, _)
filter(v, req, smax, buckets, i, j, reply) ==
    IF i < 1 THEN reply
    ELSE IF j > Len(buckets[i].b.EventRefs)
    THEN filter(v, req, smax, buckets, i - 1, 1, reply)
    ELSE LET e == buckets[i].b.EventRefs[j]
             g == getEventByID(v, e)
             ev == g.ev
             read == [reply EXCEPT !.reads = @ + 1]
             found == [read EXCEPT !.Events = Append(@, ev), !.refs = Append(@, e)]
         IN  IF g.err # NoErr
             THEN [err |-> g.err, Events |-> <<>>, Truncated |-> FALSE,
                   refs |-> <<>>, reads |-> read.reads, bids |-> reply.bids,
                   isNil |-> TRUE, panic |-> FALSE]
             ELSE IF matches(req, ev)
             THEN IF isFull(Len(found.Events), smax)
                  THEN [found EXCEPT !.Truncated = TRUE]
                  ELSE filter(v, req, smax, buckets, i, j + 1, found)
             ELSE filter(v, req, smax, buckets, i, j + 1, read)

\* No response at all in place of the empty one.
EmptyReply_nil ==
    [err |-> NoErr, Events |-> <<>>, Truncated |-> FALSE, refs |-> <<>>,
     reads |-> 0, bids |-> <<>>, isNil |-> TRUE, panic |-> FALSE]

\* &SearchResponse{}
EmptyReply ==
    [err |-> NoErr, Events |-> <<>>, Truncated |-> FALSE, refs |-> <<>>,
     reads |-> 0, bids |-> <<>>, isNil |-> FALSE, panic |-> FALSE]

NilReply(msg) == [EmptyReply EXCEPT !.err = msg, !.isNil = TRUE]

\* Search does not return: a nil pointer is dereferenced and the goroutine
\* panics.
Panic == [EmptyReply EXCEPT !.err = "nil pointer dereference", !.isNil = TRUE,
                            !.panic = TRUE]

\* To set to the current time whatever the request says.
effective_always(req, tnow) == [req EXCEPT !.To = tnow]

\* The request with To defaulted (lines 123-125).
effective(req, tnow) == IF req.To = 0 THEN [req EXCEPT !.To = tnow] ELSE req

\* Lines 168-173: getBucketByID failed.  Line 167 has assigned its results
\* to b and err, and line 171 reads b.Prev for the log message before line
\* 172 returns err: b is nil then.
prevNotFound(msg) == Panic

\* Both readings of the clock (lines 124 and 140) give tnow.
Search(v, request, tnow, smax) ==
    LET req == effective(request, tnow)
        h == getLatestBucket(v)
        w == searchWalk(v, req, h.id, h.b, tnow, <<>>)
    IN  IF request.IDnull THEN NilReply("skipchain ID required")
        ELSE IF h.err = "errIndexMissing" THEN EmptyReply
        ELSE IF h.err # NoErr THEN NilReply(h.err)
        ELSE IF w.err # NoErr THEN prevNotFound(w.err)
        ELSE filter(v, req, smax, w.buckets, Len(w.buckets), 1,
                    [EmptyReply EXCEPT !.bids = [i \in 1 .. Len(w.buckets) |-> w.buckets[i].id]])

----------------------------------------------------------------------------
\* The inputs.

\* An instruction carries any of Spawn, Invoke and Delete; a spawn of this
\* contract carries the encoded event in the argument named "event".
Events(tnow) ==
    [When : (tnow - maxPast - 1) .. (tnow + 1), Topic : Topics]

WellShaped(tnow, n) ==
    {[Spawn |-> TRUE, Invoke |-> FALSE, Delete |-> FALSE, hasEvent |-> TRUE,
      ContractID |-> contractName, ObjectID |-> <<"obj", n>>,
      eventBuf |-> [wellFormed |-> TRUE, ev |-> e]] : e \in Events(tnow)}

\* The other shapes, and the spawn whose event does not decode (the event
\* is read only when the shape is right).
Malformed(tnow, n) ==
    {[Spawn |-> s, Invoke |-> i, Delete |-> d, hasEvent |-> a,
      ContractID |-> contractName, ObjectID |-> <<"obj", n>>,
      eventBuf |-> [wellFormed |-> ~(s /\ ~i /\ ~d /\ a),
                    ev |-> [When |-> tnow, Topic |-> "a"]]] :
        s \in BOOLEAN, i \in BOOLEAN, d \in BOOLEAN, a \in BOOLEAN}

Transactions(tnow, n) == WellShaped(tnow, n) \cup Malformed(tnow, n)

Times == (StartTime - maxPast) .. (MaxTime + 1)

Requests ==
    [IDnull : {FALSE}, From : Times, To : {0} \cup Times, Topic : Topics \cup {""}]
    \cup {[IDnull |-> TRUE, From |-> StartTime, To |-> 0, Topic |-> ""]}

NoOp == [op |-> "none"]

----------------------------------------------------------------------------
\* The state machine.

Init ==
    /\ now = StartTime
    /\ coll = << >>
    /\ ntx = 0
    /\ last = NoOp
    /\ prior = NoOp

\* Time passes.
Tick ==
    /\ now < MaxTime
    /\ now' = now + 1
    /\ UNCHANGED <<coll, ntx, last, prior>>

\* The ledger runs contractFunction on one of the transactions txs and, when
\* it returns no error, applies the state changes it returned.  A rejected
\* transaction leaves the collection as it was: the runs that go on after
\* one are the runs that go on from the state before it, and are explored
\* from there.
Submit(txs) ==
    /\ ntx < MaxEvents
    /\ last.op # "search"
    /\ last.op = "log" => last.err = NoErr
    /\ \E tx \in txs :
        LET r == contractFunction(coll, tx, now)
        IN  /\ last' = [op |-> "log", tx |-> tx, now |-> now, scs |-> r.scs, err |-> r.err]
            /\ coll' = IF r.err = NoErr THEN applyChanges(coll, r.scs) ELSE coll
            /\ ntx' = IF r.err = NoErr THEN ntx + 1 ELSE ntx
    /\ prior' = NoOp
    /\ UNCHANGED now

\* Any transaction.
Log == Submit(Transactions(now, ntx + 1))

\* A transaction that contractFunction accepts.
Insert ==
    Submit({tx \in WellShaped(now, ntx + 1) : contractFunction(coll, tx, now).err = NoErr})

\* A client searches the log as it stands.  The search reads a snapshot of
\* the collection: what follows a search is explored on that snapshot, and
\* the further growth of the log from the states before the search.
DoSearch ==
    /\ last.op # "search"
    /\ \E req \in Requests :
        last' = [op |-> "search", req |-> req, now |-> now,
                 reply |-> Search(coll, req, now, searchMax)]
    /\ prior' = NoOp
    /\ UNCHANGED <<now, coll, ntx>>

\* The client sends the same request once more, at a later time.
SearchAgain ==
    /\ last.op = "search"
    /\ prior = NoOp
    /\ last.now < now
    /\ last' = [op |-> "search", req |-> last.req, now |-> now,
                reply |-> Search(coll, last.req, now, searchMax)]
    /\ prior' = [op |-> "again", now |-> last.now, reply |-> last.reply]
    /\ UNCHANGED <<now, coll, ntx>>

\* The client pages forward from a truncated response: the same request with
\* From set to the When of the last event returned.  prior keeps the first
\* request, its time, and the addresses of the events of all earlier pages.
NextPage ==
    /\ last.op = "search"
    /\ prior.op \in {"none", "page"}
    /\ last.reply.err = NoErr
    /\ last.reply.Truncated
    /\ (prior.op = "page" => prior.pages < MaxPages)
    /\ LET req == [last.req EXCEPT
                     !.From = last.reply.Events[Len(last.reply.Events)].When]
       IN  last' = [op |-> "search", req |-> req, now |-> now,
                    reply |-> Search(coll, req, now, searchMax)]
    /\ prior' = IF prior.op = "page"
                THEN [prior EXCEPT !.refs = @ \o last.reply.refs, !.pages = @ + 1]
                ELSE [op |-> "page", req |-> last.req, now |-> last.now,
                      refs |-> last.reply.refs, pages |-> 1]
    /\ UNCHANGED <<now, coll, ntx>>

\* The wall clock is set, forward or back.
SetClock ==
    /\ \E t \in 0 .. ClockMax : t # now /\ now' = t
    /\ UNCHANGED <<coll, ntx, last, prior>>

\* A transaction that contractFunction accepts, its event of topic "a" and
\* stamped with the time the clock shows.  With a clock that can be set to
\* any time, an event with any When can arrive this way.
Arrive ==
    Submit({tx \in WellShaped(now, ntx + 1) :
               /\ tx.eventBuf.ev.Topic = "a"
               /\ tx.eventBuf.ev.When = now
               /\ contractFunction(coll, tx, now).err = NoErr})

\* A transaction of the right shape, its event of topic "a" and stamped
\* within the window, whatever the store makes of it.
Offer ==
    Submit({tx \in WellShaped(now, ntx + 1) :
               /\ tx.eventBuf.ev.Topic = "a"
               /\ decodeAndCheckEvent(tx.eventBuf, now).err = NoErr})

\* The collection view comes without one of the records the log wrote: a
\* bucket, an event or the pointer.  One record is lost in a run.
Lose ==
    /\ last.op = "log"
    /\ last.err = NoErr
    /\ Cardinality({k \in DOMAIN coll : coll[k].kind = "event"}) = ntx
    /\ Cardinality({k \in DOMAIN coll : coll[k].kind = "pointer"}) = 1
    /\ Cardinality({k \in DOMAIN coll : coll[k].kind = "bucket"})
           = 1 + Cardinality({k \in DOMAIN coll :
                                 coll[k].kind = "bucket" /\ coll[k].b.Prev # <<>>})
    /\ \A k \in DOMAIN coll :
           (coll[k].kind = "bucket" /\ coll[k].b.Prev # <<>>) => coll[k].b.Prev \in DOMAIN coll
    /\ \E k \in DOMAIN coll :
           /\ coll' = [j \in DOMAIN coll \ {k} |-> coll[j]]
           /\ last' = [op |-> "lose", key |-> k]
    /\ UNCHANGED <<now, ntx, prior>>

\* The searches made of a log that may have lost a record: from the
\* earliest time or from now on, up to now (To = 0) or past the latest time,
\* for a topic or for all.
Probes(tnow) ==
    [IDnull : {FALSE}, From : {StartTime - maxPast, tnow}, To : {0, MaxTime + 1},
     Topic : Topics \cup {""}]
    \cup {[IDnull |-> TRUE, From |-> StartTime, To |-> 0, Topic |-> ""]}

\* A search that gives up on an error and removes the head pointer, for the
\* index to be built anew.
Inquire_resetsIndex ==
    /\ last.op # "search"
    /\ \E req \in Probes(now) :
        LET reply == Search(coll, req, now, searchMax)
        IN  /\ last' = [op |-> "search", req |-> req, now |-> now, reply |-> reply]
            /\ coll' = IF reply.err # NoErr /\ ~req.IDnull
                        THEN [k \in DOMAIN coll \ {theEventLog} |-> coll[k]]
                        ELSE coll
    /\ prior' = NoOp
    /\ UNCHANGED <<now, ntx>>

\* A client searches the log as it stands, with one of the probes.
Inquire ==
    /\ last.op # "search"
    /\ \E req \in Probes(now) :
        last' = [op |-> "search", req |-> req, now |-> now,
                 reply |-> Search(coll, req, now, searchMax)]
    /\ prior' = NoOp
    /\ UNCHANGED <<now, coll, ntx>>

\* Time passes, in a long run.
Advance ==
    /\ now < Horizon
    /\ now' = now + 1
    /\ UNCHANGED <<coll, ntx, last, prior>>

Next == Tick \/ Log

Spec == Init /\ [][Next]_vars

NextSearch == Tick \/ Insert \/ DoSearch \/ SearchAgain \/ NextPage

SearchSpec == Init /\ [][NextSearch]_vars

NextClock == SetClock \/ Arrive

ClockSpec == Init /\ [][NextClock]_vars

NextLong == Advance \/ Offer

LongSpec == Init /\ [][NextLong]_vars

NextCorrupt == Tick \/ Offer \/ Lose \/ Inquire

CorruptSpec == Init /\ [][NextCorrupt]_vars

----------------------------------------------------------------------------
\* Views of the collection used to state the properties.

Range(f) == {f[i] : i \in DOMAIN f}

Buckets(v) == {k \in DOMAIN v : v[k].kind = "bucket"}

EventIDs(v) == {k \in DOMAIN v : v[k].kind = "event"}

Sentinels(v) == {k \in Buckets(v) : v[k].b.Prev = <<>>}

HasHead(v) == theEventLog \in DOMAIN v

HeadID(v) == v[theEventLog].id

\* The ids met by following Prev from id, for at most fuel steps; ok when
\* every id resolved to a bucket and the walk ended at a bucket without Prev.
RECURSIVE ChainFrom(_, _, _)
ChainFrom(v, id, fuel) ==
    IF id \notin Buckets(v) THEN [ok |-> FALSE, ids |-> <<>>]
    ELSE IF v[id].b.Prev = <<>> THEN [ok |-> TRUE, ids |-> <<id>>]
    ELSE IF fuel = 0 THEN [ok |-> FALSE, ids |-> <<id>>]
    ELSE LET rest == ChainFrom(v, v[id].b.Prev, fuel - 1)
         IN  [ok |-> rest.ok, ids |-> <<id>> \o rest.ids]

\* The chain of the log, head first.
Chain(v) == ChainFrom(v, HeadID(v), Cardinality(Buckets(v)))

\* The transaction of `last` has the one shape contractFunction goes on with.
LastWellShaped ==
    /\ last.op = "log"
    /\ last.tx.Spawn /\ ~last.tx.Invoke /\ ~last.tx.Delete /\ last.tx.hasEvent
    /\ last.tx.eventBuf.wellFormed

LastAccepted == last.op = "log" /\ last.err = NoErr

\* The When of the accepted events, in the order they were accepted.
ArrivalWhens(v) ==
    [i \in 1 .. Cardinality(EventIDs(v)) |-> v[<<"obj", i>>].ev.When]

\* The buckets that refer to event k.
Holders(v, k) == {id \in Buckets(v) : k \in Range(v[id].b.EventRefs)}

----------------------------------------------------------------------------
\* C1: after any sequence of accepted insertions, following Prev from the
\* bucket the head pointer names reaches the sentinel in finitely many steps
\* without visiting a bucket twice, every Prev on the way resolves to a
\* bucket, the sentinel is the only bucket without Prev, and the Start values
\* do not decrease from the sentinel to the head (the sentinel's own Start,
\* 0, excepted).
C1_ChainWellFormed ==
    HasHead(coll) =>
        LET c == Chain(coll)
            n == Len(c.ids)
        IN  /\ c.ok
            /\ \A i, j \in 1 .. n : i # j => c.ids[i] # c.ids[j]
            /\ Sentinels(coll) = {c.ids[n]}
            /\ coll[c.ids[n]].b.Start = 0
            /\ \A i, j \in 1 .. (n - 1) :
                   i < j => coll[c.ids[j]].b.Start <= coll[c.ids[i]].b.Start

\* A log with two head buckets above the sentinel, the older one holding an
\* event that came in after the newer one was made.
C1_Witness ==
    /\ HasHead(coll)
    /\ Len(Chain(coll).ids) = 3
    /\ HeadID(coll) = <<"bucket", 2>>
    /\ coll[Chain(coll).ids[2]].b.EventRefs = <<<<"obj", 1>>, <<"obj", 3>>>>

----------------------------------------------------------------------------
\* The buckets that were the head once and are not any more.
Superseded(v) ==
    IF HasHead(v) THEN Buckets(v) \ (Sentinels(v) \cup {HeadID(v)}) ELSE {}

\* The buckets made after bucket k: those the chain meets before k.
Newer(v, k) ==
    LET c == Chain(v).ids
    IN  {c[i] : i \in {i \in 1 .. Len(c) : \E j \in 1 .. Len(c) : i < j /\ c[j] = k}}

\* C2, as claimed: once a bucket has been superseded by a newer head, no
\* later accepted insertion updates it: its value stays as it was.
C2_SupersededNeverUpdated ==
    [][\A k \in Superseded(coll) : coll'[k] = coll[k]]_vars

\* C2, amended: a bucket is changed after its creation only by an accepted
\* insertion whose event is not before the bucket's Start (the sentinel takes
\* any event) and is before the Start of every newer bucket; the change
\* appends the event's address to EventRefs and leaves Start, Prev and the
\* earlier references as they were, and no other bucket changes in that step.
C2_OnlyStoppingBucketUpdated ==
    [][\A k \in Buckets(coll) :
          coll'[k] # coll[k] =>
              /\ last'.op = "log" /\ last'.err = NoErr
              /\ k \in Sentinels(coll) \/ coll[k].b.Start <= last'.tx.eventBuf.ev.When
              /\ \A j \in Newer(coll, k) : coll[j].b.Start > last'.tx.eventBuf.ev.When
              /\ coll'[k] = [kind |-> "bucket",
                             b |-> [coll[k].b EXCEPT
                                      !.EventRefs = Append(@, last'.tx.ObjectID)]]
              /\ \A j \in Buckets(coll) \ {k} : coll'[j] = coll[j]]_vars

\* A superseded bucket that holds an event accepted after the transaction
\* that made the present head.
C2_Witness ==
    /\ LastAccepted
    /\ \E k \in Superseded(coll) :
           \E i \in 1 .. Len(coll[k].b.EventRefs) :
               coll[k].b.EventRefs[i][2] > HeadID(coll)[2]

----------------------------------------------------------------------------
\* C9: a transaction of the right shape is accepted exactly when
\* now - 5s <= when <= now; an event after now is rejected as being in the
\* future, one before now - 5s as too long ago, and a rejected transaction
\* returns no state change.
C9_TimestampWindow ==
    LastWellShaped =>
        LET when == last.tx.eventBuf.ev.When
        IN  /\ (last.err = NoErr) <=> (last.now - 5 <= when /\ when <= last.now)
            /\ when > last.now => last.err = "event timestamp is in the future"
            /\ when < last.now - 5 => last.err = "event timestamp too long ago"
            /\ last.err # NoErr => last.scs = <<>>

\* An event exactly five seconds old has been accepted.
C9_Witness ==
    /\ LastWellShaped
    /\ last.tx.eventBuf.ev.When = last.now - 5
    /\ last.err = NoErr
    /\ last.scs # <<>>

----------------------------------------------------------------------------
\* C10: the first accepted insertion returns exactly four state changes, all
\* Create: the event, the sentinel bucket (Start 0, no Prev, no references),
\* the first head bucket (Start = the event's When, Prev = the sentinel,
\* EventRefs = the event's address) and the head pointer naming that bucket;
\* no later insertion creates a bucket without Prev.
C10_Bootstrap ==
    /\ (LastAccepted /\ ntx = 1) =>
           LET tx == last.tx
               ev == tx.eventBuf.ev
           IN  last.scs =
                 << [StateAction |-> "Create", ObjectID |-> tx.ObjectID,
                     ContractID |-> contractName,
                     Value |-> [kind |-> "event", ev |-> ev]],
                    [StateAction |-> "Create", ObjectID |-> <<"catch-all", 1>>,
                     ContractID |-> contractName,
                     Value |-> [kind |-> "bucket",
                                b |-> [Start |-> 0, Prev |-> <<>>, EventRefs |-> <<>>]]],
                    [StateAction |-> "Create", ObjectID |-> <<"bucket", 1>>,
                     ContractID |-> contractName,
                     Value |-> [kind |-> "bucket",
                                b |-> [Start |-> ev.When, Prev |-> <<"catch-all", 1>>,
                                       EventRefs |-> <<tx.ObjectID>>]]],
                    [StateAction |-> "Create", ObjectID |-> theEventLog,
                     ContractID |-> contractName,
                     Value |-> [kind |-> "pointer", id |-> <<"bucket", 1>>]] >>
    /\ (LastAccepted /\ ntx > 1) =>
           \A i \in 1 .. Len(last.scs) :
               ~(/\ last.scs[i].StateAction = "Create"
                 /\ last.scs[i].Value.kind = "bucket"
                 /\ last.scs[i].Value.b.Prev = <<>>)
    /\ ntx >= 1 => Cardinality(Sentinels(coll)) = 1

\* The first insertion has been accepted.
C10_Witness ==
    /\ LastAccepted
    /\ ntx = 1
    /\ Len(last.scs) = 4

----------------------------------------------------------------------------
\* The last operation was a search that returned a result.
LastSearch == last.op = "search" /\ ~last.req.IDnull /\ last.reply.err = NoErr

\* The exclusive upper bound a request asks for when sent at time t.
AskedTo(req, t) == IF req.To = 0 THEN t ELSE req.To

\* The event is one the request, sent at time t, asks for.
Wanted(req, t, ev) ==
    /\ req.From <= ev.When
    /\ ev.When < AskedTo(req, t)
    /\ (req.Topic = "" \/ req.Topic = ev.Topic)

\* The event references of the buckets bids[1 .. i] in the order Search reads
\* them: the last bucket of bids first.
RECURSIVE FlatRefs(_, _, _)
FlatRefs(v, bids, i) ==
    IF i = 0 THEN <<>> ELSE v[bids[i]].b.EventRefs \o FlatRefs(v, bids, i - 1)

\* C3: a search whose result is not truncated returns every event of the
\* log with From <= When < To and the topic asked for (any topic when none is
\* asked for): neither the early stop of the walk nor the skip of a bucket
\* leaves out a bucket that holds such an event.
C3_SearchComplete ==
    (LastSearch /\ ~last.reply.Truncated) =>
        \A k \in EventIDs(coll) :
            Wanted(last.req, last.now, coll[k].ev) => k \in Range(last.reply.refs)

\* A search over three buckets that skipped the head, kept the bucket below
\* it, stopped before the sentinel, and found an event.
C3_Witness ==
    /\ LastSearch /\ ~last.reply.Truncated
    /\ HasHead(coll) /\ Len(Chain(coll).ids) = 3
    /\ last.reply.bids = <<Chain(coll).ids[2]>>
    /\ Len(last.reply.Events) >= 1
    /\ last.req.From <= last.now

----------------------------------------------------------------------------
\* C4: every event a search returns is an event of the log with
\* From <= When < To and, when a topic is asked for, with that topic,
\* whichever bucket refers to it; when no topic is asked for, the events of
\* every topic in the range are returned (up to truncation).
C4_SearchSound ==
    LastSearch =>
        /\ \A i \in 1 .. Len(last.reply.Events) :
               LET ev == last.reply.Events[i]
               IN  /\ last.req.From <= ev.When
                   /\ ev.When < AskedTo(last.req, last.now)
                   /\ last.req.Topic # "" => ev.Topic = last.req.Topic
                   /\ last.reply.refs[i] \in EventIDs(coll)
                   /\ coll[last.reply.refs[i]].ev = ev
        /\ (last.req.Topic = "" /\ ~last.reply.Truncated) =>
               \A k \in EventIDs(coll) :
                   (/\ last.req.From <= coll[k].ev.When
                    /\ coll[k].ev.When < AskedTo(last.req, last.now))
                   => k \in Range(last.reply.refs)

\* A search for one topic that returned two events from two buckets, one of
\* them not the head, and left out an event of another topic in the range.
C4_Witness ==
    /\ LastSearch
    /\ last.req.Topic # ""
    /\ Len(last.reply.Events) = 2
    /\ \E b1, b2 \in Buckets(coll) :
           /\ b1 # b2
           /\ b1 # HeadID(coll)
           /\ last.reply.refs[1] \in Range(coll[b1].b.EventRefs)
           /\ last.reply.refs[2] \in Range(coll[b2].b.EventRefs)
    /\ \E k \in EventIDs(coll) :
           /\ coll[k].ev.Topic # last.req.Topic
           /\ last.req.From <= coll[k].ev.When
           /\ coll[k].ev.When < AskedTo(last.req, last.now)

----------------------------------------------------------------------------
\* C5: the events of a search result are ordered oldest first: an event is
\* never followed by one with a smaller When.
C5_OldestFirst ==
    LastSearch =>
        \A i, j \in 1 .. Len(last.reply.Events) :
            i < j => last.reply.Events[i].When <= last.reply.Events[j].When

----------------------------------------------------------------------------
\* C6: paging forward from a truncated result with From set to the When of
\* the last event returned, no event is returned twice, and when the last
\* page is not truncated every event the first request asked for has been
\* returned on some page.
C6_Pagination ==
    (last.op = "search" /\ prior.op = "page" /\ last.reply.err = NoErr) =>
        /\ \A i \in 1 .. Len(last.reply.refs) :
               last.reply.refs[i] \notin Range(prior.refs)
        /\ ~last.reply.Truncated =>
               \A k \in EventIDs(coll) :
                   Wanted(prior.req, prior.now, coll[k].ev)
                   => k \in Range(prior.refs) \cup Range(last.reply.refs)

----------------------------------------------------------------------------
\* C7: a search returns at most searchMax events, reads no event reference
\* past the one that filled the result, and says Truncated exactly when it
\* returns searchMax events.
C7_SearchMax ==
    LastSearch =>
        LET n == Len(last.reply.Events)
            flat == FlatRefs(coll, last.reply.bids, Len(last.reply.bids))
        IN  /\ n <= searchMax
            /\ last.reply.Truncated <=> n = searchMax
            /\ last.reply.Truncated =>
                   /\ last.reply.reads <= Len(flat)
                   /\ flat[last.reply.reads] = last.reply.refs[n]
            /\ ~last.reply.Truncated => last.reply.reads = Len(flat)

\* A truncated search that left event references unread.
C7_Witness ==
    /\ LastSearch
    /\ last.reply.Truncated
    /\ Len(last.reply.Events) = searchMax
    /\ last.reply.reads <
           Len(FlatRefs(coll, last.reply.bids, Len(last.reply.bids)))

----------------------------------------------------------------------------
\* The two replies hold the same events and the same Truncated flag.
SameResult(r1, r2) ==
    /\ r1.err = r2.err
    /\ r1.Events = r2.Events
    /\ r1.Truncated = r2.Truncated

\* C8, as claimed: the same request sent twice against the unchanged log
\* gets the same result, To = 0 included, whatever the time of each call.
C8_Idempotent ==
    prior.op = "again" => SameResult(prior.reply, last.reply)

\* C8, amended: the same request with To # 0 sent twice against the
\* unchanged log gets the same result, whatever the time of each call.
C8_IdempotentExplicitTo ==
    (prior.op = "again" /\ last.req.To # 0) => SameResult(prior.reply, last.reply)

\* A request with To # 0 answered at two different times with an event, the
\* first time being before To.
C8_Witness ==
    /\ prior.op = "again"
    /\ last.req.To # 0
    /\ prior.now < last.now
    /\ prior.now < last.req.To
    /\ Len(last.reply.Events) >= 1

----------------------------------------------------------------------------
\* The log after events stamped 0s, 3s and 7s: two buckets above the
\* sentinel, the older with the first two events, the head with the third.
AgedLog(v) ==
    LET heads == Buckets(v) \ Sentinels(v)
    IN  /\ Cardinality(heads) = 2
        /\ \E b1 \in heads :
               /\ b1 # HeadID(v)
               /\ v[b1].b.EventRefs = <<<<"obj", 1>>, <<"obj", 2>>>>
               /\ v[HeadID(v)].b.Prev = b1
        /\ HeadID(v) \in heads
        /\ v[HeadID(v)].b.EventRefs = <<<<"obj", 3>>>>
        /\ v[HeadID(v)].b.Start = 7

\* C11: an accepted insertion whose event is not before the head bucket's
\* Start creates a new head bucket (Start = the event's When, Prev = the old
\* head, EventRefs = the event's address) exactly when When - Start is
\* greater than bucketMaxAge, and appends to the head otherwise, a
\* difference of exactly bucketMaxAge included; events stamped 0s, 3s, 7s
\* accepted into an empty log leave two buckets above the sentinel, the
\* first with the events of 0s and 3s, the new head with the event of 7s.
C11_BucketAging ==
    [][/\ (ntx' = ntx + 1 /\ HasHead(coll)
            /\ coll[HeadID(coll)].b.Start <= last'.tx.eventBuf.ev.When) =>
              LET hID == HeadID(coll)
                  tx == last'.tx
                  when == tx.eventBuf.ev.When
                  newBid == <<"bucket", tx.ObjectID[2]>>
              IN  IF when - coll[hID].b.Start > bucketMaxAge
                  THEN /\ Buckets(coll') = Buckets(coll) \cup {newBid}
                       /\ newBid \notin Buckets(coll)
                       /\ coll'[newBid].b =
                              [Start |-> when, Prev |-> hID, EventRefs |-> <<tx.ObjectID>>]
                       /\ HeadID(coll') = newBid
                       /\ coll'[hID] = coll[hID]
                  ELSE /\ Buckets(coll') = Buckets(coll)
                       /\ HeadID(coll') = hID
                       /\ coll'[hID].b =
                              [coll[hID].b EXCEPT !.EventRefs = Append(@, tx.ObjectID)]
       /\ (ntx' = 3 /\ ArrivalWhens(coll') = <<0, 3, 7>>) => AgedLog(coll')]_vars

\* Events stamped 0s, 3s and 7s have been accepted in that order.
C11_Witness ==
    /\ LastAccepted
    /\ ntx = 3
    /\ ArrivalWhens(coll) = <<0, 3, 7>>
    /\ Cardinality(Buckets(coll)) = 3

----------------------------------------------------------------------------
\* C12, as claimed: after events stamped 10s, 2s, 8s accepted in that order
\* into an empty log, the 2s event is in a bucket with Start <= 2s that is
\* not the head, and the 8s and 10s events are each in a bucket above the
\* sentinel whose Start is not after the event.
C12_OutOfOrder ==
    (ntx = 3 /\ ArrivalWhens(coll) = <<10, 2, 8>>) =>
        /\ \E id \in Holders(coll, <<"obj", 2>>) :
               id # HeadID(coll) /\ coll[id].b.Start <= 2
        /\ \A k \in {<<"obj", 1>>, <<"obj", 3>>} :
               \E id \in Holders(coll, k) :
                   id \notin Sentinels(coll) /\ coll[id].b.Start <= coll[k].ev.When

\* C12, amended: after events stamped 10s, 2s, 8s accepted in that order
\* into an empty log, the log has the sentinel and one head bucket; the head
\* (Start 10s) holds the 10s event alone, and the sentinel holds the 2s and
\* the 8s event in that order: both are before the Start of the only head
\* bucket, and the walk falls through to the sentinel for each.
C12_OutOfOrderToSentinel ==
    (ntx = 3 /\ ArrivalWhens(coll) = <<10, 2, 8>>) =>
        /\ Cardinality(Buckets(coll)) = 2
        /\ coll[HeadID(coll)].b =
               [Start |-> 10, Prev |-> <<"catch-all", 1>>, EventRefs |-> <<<<"obj", 1>>>>]
        /\ coll[<<"catch-all", 1>>].b =
               [Start |-> 0, Prev |-> <<>>,
                EventRefs |-> <<<<"obj", 2>>, <<"obj", 3>>>>]

\* Events stamped 10s, 2s and 8s have been accepted in that order, the
\* clock having been set back after the first.
C12_Witness ==
    /\ LastAccepted
    /\ ntx = 3
    /\ ArrivalWhens(coll) = <<10, 2, 8>>
    /\ last.now = 8

----------------------------------------------------------------------------
\* C13: contractFunction accepts a transaction only if it has Spawn set,
\* neither Delete nor Invoke set, and an argument named "event"; one with
\* Delete or Invoke set is rejected as not allowed, one without Spawn or
\* without the argument as not being what is expected, and every rejection
\* returns an empty list of state changes, whichever check it comes from.
C13_ShapeChecked ==
    last.op = "log" =>
        LET tx == last.tx
        IN  /\ last.err = NoErr =>
                   tx.Spawn /\ ~tx.Delete /\ ~tx.Invoke /\ tx.hasEvent
            /\ tx.Delete => last.err = "delete tx not allowed"
            /\ (~tx.Delete /\ tx.Invoke) => last.err = "invoke tx not allowed"
            /\ (~tx.Delete /\ ~tx.Invoke /\ ~tx.Spawn) => last.err = "expected a spawn tx"
            /\ (~tx.Delete /\ ~tx.Invoke /\ tx.Spawn /\ ~tx.hasEvent) =>
                   last.err = "expected a named argument of \"event\""
            /\ last.err # NoErr => last.scs = <<>>

\* A spawn without the argument named "event" has been rejected, after the
\* three checks before it passed, on a log that holds events.
C13_Witness ==
    /\ last.op = "log"
    /\ last.tx.Spawn /\ ~last.tx.Delete /\ ~last.tx.Invoke /\ ~last.tx.hasEvent
    /\ last.err # NoErr
    /\ last.scs = <<>>
    /\ ntx >= 1

----------------------------------------------------------------------------
\* C14: a search that meets a Prev or an event reference that does not
\* resolve returns an error and no result: Search always returns; what it
\* returns with an error is nil, never a list of events; a search from the
\* earliest time on that returns a result has walked a chain that resolves
\* down to the sentinel; and a result that is not truncated comes from
\* buckets whose event references all resolve.
C14_SearchAborts ==
    (last.op = "search" /\ ~last.req.IDnull) =>
        /\ ~last.reply.panic
        /\ last.reply.err # NoErr =>
               /\ last.reply.isNil
               /\ last.reply.Events = <<>>
               /\ ~last.reply.Truncated
        /\ (last.reply.err = NoErr /\ HasHead(coll)
                /\ last.req.From <= StartTime - maxPast) => Chain(coll).ok
        /\ (last.reply.err = NoErr /\ ~last.reply.Truncated) =>
               \A i \in 1 .. Len(last.reply.bids) :
                   Range(coll[last.reply.bids[i]].b.EventRefs) \subseteq EventIDs(coll)

----------------------------------------------------------------------------
\* C15: after any sequence of accepted insertions, every address in the
\* EventRefs of the buckets is the address of an event record of the
\* collection, no address is referred to twice, in one bucket or in two, and
\* every accepted event is referred to by one bucket.
C15_RefsUnique ==
    /\ \A id \in Buckets(coll) :
           LET refs == coll[id].b.EventRefs
           IN  /\ Range(refs) \subseteq EventIDs(coll)
               /\ \A i, j \in 1 .. Len(refs) : i # j => refs[i] # refs[j]
    /\ \A id1, id2 \in Buckets(coll) :
           id1 # id2 =>
               Range(coll[id1].b.EventRefs) \cap Range(coll[id2].b.EventRefs) = {}
    /\ \A k \in EventIDs(coll) : Cardinality(Holders(coll, k)) = 1
    /\ EventIDs(coll) = {<<"obj", n>> : n \in 1 .. ntx}

\* Three accepted events, two of them in one bucket and one in another.
C15_Witness ==
    /\ LastAccepted
    /\ ntx = 3
    /\ \E id1, id2 \in Buckets(coll) :
           /\ id1 # id2
           /\ Len(coll[id1].b.EventRefs) = 2
           /\ Len(coll[id2].b.EventRefs) = 1

----------------------------------------------------------------------------
\* The state changes of scs that write the head pointer.
PointerWrites(scs) ==
    {i \in 1 .. Len(scs) : scs[i].ObjectID = theEventLog}

\* The bucket above the sentinel that was created last.
LatestMade(v) ==
    CHOOSE id \in Buckets(v) \ Sentinels(v) :
        \A other \in Buckets(v) \ Sentinels(v) : other[2] <= id[2]

\* C16: the first accepted insertion creates the head pointer; a later
\* accepted insertion writes it, as an Update naming the new bucket, exactly
\* when it creates a new head bucket, and leaves it as it was when it appends
\* to an existing bucket; a rejected transaction leaves it too; after every
\* accepted insertion it names the bucket created last.
C16_PointerFrame ==
    [][IF ntx' = ntx + 1
       THEN LET scs == last'.scs
                made == Buckets(coll') \ (Buckets(coll) \cup Sentinels(coll'))
            IN  /\ ~HasHead(coll) =>
                       /\ Cardinality(PointerWrites(scs)) = 1
                       /\ \A i \in PointerWrites(scs) : scs[i].StateAction = "Create"
                /\ HasHead(coll) =>
                       /\ (made # {}) <=> (PointerWrites(scs) # {})
                       /\ (made = {}) => coll'[theEventLog] = coll[theEventLog]
                       /\ \A i \in PointerWrites(scs) :
                              /\ scs[i].StateAction = "Update"
                              /\ made = {scs[i].Value.id}
                              /\ coll[theEventLog] # coll'[theEventLog]
                /\ HasHead(coll')
                /\ HeadID(coll') = LatestMade(coll')
       ELSE HasHead(coll') = HasHead(coll)
            /\ (HasHead(coll) => coll'[theEventLog] = coll[theEventLog])]_vars

\* The second insertion made a new head bucket and rewrote the pointer, the
\* third appended and left the pointer alone.
C16_Witness ==
    /\ LastAccepted
    /\ ntx = 3
    /\ HeadID(coll) = <<"bucket", 2>>
    /\ PointerWrites(last.scs) = {}

----------------------------------------------------------------------------
\* C17: a search of a log that has no head pointer, no event having been
\* accepted, returns a response with no event, not truncated, and no error,
\* whatever From, To and Topic are.
C17_EmptyLog ==
    (last.op = "search" /\ ~last.req.IDnull /\ ~HasHead(coll) /\ ntx = 0) =>
        /\ last.reply.err = NoErr
        /\ ~last.reply.isNil
        /\ ~last.reply.panic
        /\ last.reply.Events = <<>>
        /\ ~last.reply.Truncated

\* The empty log has been searched for a topic over a range that is not
\* empty and ends before now.
C17_Witness ==
    /\ last.op = "search"
    /\ ~last.req.IDnull
    /\ coll = << >>
    /\ last.req.Topic = "a"
    /\ last.req.From < last.req.To
    /\ last.req.To < last.now
    /\ last.reply.err = NoErr

----------------------------------------------------------------------------
\* C18: a search leaves the collection as it found it, whatever it is asked
\* and whatever comes of it (a result, a truncated result, an error, or no
\* return at all): the head pointer, every bucket and every event record
\* are there after the call with the value they had before it, and no
\* record has been added.
C18_SearchReadsOnly ==
    [][last'.op = "search" /\ last' # last =>
          /\ DOMAIN coll' = DOMAIN coll
          /\ \A k \in DOMAIN coll : coll'[k] = coll[k]
          /\ ntx' = ntx]_vars

\* A search of a log with an event record missing has returned an error.
C18_Witness ==
    /\ last.op = "search"
    /\ last.reply.err = "event not found"
    /\ HasHead(coll)
    /\ Buckets(coll) # {}

----------------------------------------------------------------------------
\* The bucket an event stamped when belongs to: of the buckets of the chain,
\* the one closest to the head that starts at or before when, and the
\* sentinel when no bucket above it does.
Target(v, when) ==
    LET c == Chain(v).ids
        q == {i \in 1 .. Len(c) :
                 v[c[i]].b.Prev = <<>> \/ v[c[i]].b.Start <= when}
    IN  c[CHOOSE i \in q : \A j \in q : i <= j]

\* C19: an accepted insertion into a log that has a head finds the bucket
\* closest to the head whose Start is not after the event's When, or the
\* sentinel when there is none above it; unless that bucket is the head and
\* older than bucketMaxAge at the event's When, the insertion appends the
\* event's address at the end of that bucket's EventRefs, leaves its Start,
\* its Prev and its earlier references as they were, changes no other
\* bucket and creates none.
C19_Placement ==
    [][(ntx' = ntx + 1 /\ HasHead(coll)) =>
          LET tx == last'.tx
              when == tx.eventBuf.ev.When
              t == Target(coll, when)
              newHead == t = HeadID(coll) /\ when - coll[t].b.Start > bucketMaxAge
          IN  ~newHead =>
                  /\ coll'[t] =
                         [kind |-> "bucket",
                          b |-> [coll[t].b EXCEPT !.EventRefs = Append(@, tx.ObjectID)]]
                  /\ Buckets(coll') = Buckets(coll)
                  /\ \A k \in Buckets(coll) \ {t} : coll'[k] = coll[k]]_vars

\* The third event went past two buckets into the sentinel.
C19_Witness ==
    /\ LastAccepted
    /\ ntx = 3
    /\ Len(Chain(coll).ids) = 3
    /\ coll[Chain(coll).ids[3]].b.EventRefs = <<<<"obj", 3>>>>

----------------------------------------------------------------------------
\* C20: a transaction of the right shape and within the time window is
\* rejected, with an error and an empty list of state changes, when the head
\* pointer names a bucket that is not there, and when the walk comes to a
\* Prev that does not resolve (the event is before the Start of every bucket
\* down to the break in the chain); the collection is then as it was, the
\* event record included.  Without such a failure the transaction is
\* accepted; a missing head pointer is no failure.
C20_AllOrNothing ==
    [][(last'.op = "log" /\ last' # last) =>
          LET when == last'.tx.eventBuf.ev.When
              headFails == HasHead(coll) /\ HeadID(coll) \notin Buckets(coll)
              c == IF HasHead(coll) THEN Chain(coll) ELSE [ok |-> TRUE, ids |-> <<>>]
              prevFails ==
                  /\ HasHead(coll) /\ ~headFails /\ ~c.ok
                  /\ \A i \in 1 .. Len(c.ids) : coll[c.ids[i]].b.Start > when
          IN  /\ (headFails \/ prevFails) <=> last'.err # NoErr
              /\ last'.err # NoErr =>
                     /\ last'.scs = <<>>
                     /\ coll' = coll
                     /\ last'.tx.ObjectID \notin DOMAIN coll'
                     /\ ntx' = ntx]_vars

\* An event older than every bucket left of a chain whose sentinel is
\* missing has been rejected.
C20_Witness ==
    /\ last.op = "log"
    /\ last.err = "bucket not found"
    /\ last.scs = <<>>
    /\ HasHead(coll)
    /\ HeadID(coll) \in Buckets(coll)
    /\ Sentinels(coll) = {}

----------------------------------------------------------------------------
\* The buckets whose Prev is bucket id: the bucket created right after it.
NextOf(v, id) == {n \in Buckets(v) : v[n].b.Prev = id}

\* C21, as claimed: after any sequence of accepted insertions, every event
\* referred to by a bucket above the sentinel has a When from the bucket's
\* Start to its Start + bucketMaxAge.
C21_AgeBudget ==
    \A id \in Buckets(coll) \ Sentinels(coll) :
        \A k \in Range(coll[id].b.EventRefs) :
            /\ 0 <= coll[k].ev.When - coll[id].b.Start
            /\ coll[k].ev.When - coll[id].b.Start <= bucketMaxAge

\* C21, amended: after any sequence of accepted insertions, every event
\* referred to by a bucket above the sentinel is not before the bucket's
\* Start; in the head bucket it is at most bucketMaxAge after the Start; in
\* a bucket that is no longer the head it is before the Start of the bucket
\* created right after, and can be more than bucketMaxAge after the
\* bucket's own Start.
C21_AgeBudgetOfHead ==
    HasHead(coll) =>
        \A id \in Buckets(coll) \ Sentinels(coll) :
            \A k \in Range(coll[id].b.EventRefs) :
                /\ coll[id].b.Start <= coll[k].ev.When
                /\ id = HeadID(coll) =>
                       coll[k].ev.When - coll[id].b.Start <= bucketMaxAge
                /\ id # HeadID(coll) =>
                       \A n \in NextOf(coll, id) : coll[k].ev.When < coll[n].b.Start

\* A bucket that is no longer the head has taken an event more than
\* bucketMaxAge after its Start.
C21_Witness ==
    /\ LastAccepted
    /\ \E id \in Superseded(coll) \ Sentinels(coll) :
           \E k \in Range(coll[id].b.EventRefs) :
               coll[k].ev.When - coll[id].b.Start > bucketMaxAge

----------------------------------------------------------------------------
\* Event k is in the interval of bucket id: not before its Start, unless it
\* is the sentinel, and before the Start of the bucket created right after
\* it, unless it is the head.
InInterval(v, id, k) ==
    /\ id \notin Sentinels(v) => v[id].b.Start <= v[k].ev.When
    /\ \A n \in NextOf(v, id) : v[k].ev.When < v[n].b.Start

\* C22: after any sequence of accepted insertions, every event referred to
\* by a bucket b is before the Start of the bucket created right after b
\* (b not the head) and, b not the sentinel, not before b's Start; the
\* intervals of the buckets of the chain partition the events: every event
\* is in the interval of exactly one bucket, the one that refers to it.
C22_Intervals ==
    HasHead(coll) =>
        /\ \A id \in Buckets(coll) :
               \A k \in Range(coll[id].b.EventRefs) : InInterval(coll, id, k)
        /\ \A k \in EventIDs(coll) :
               /\ Cardinality(Holders(coll, k)) = 1
               /\ {id \in Range(Chain(coll).ids) : InInterval(coll, id, k)}
                      = Holders(coll, k)

\* The sentinel, a bucket that is no longer the head and the head refer to
\* one event each, the last of them placed below the head.
C22_Witness ==
    /\ LastAccepted
    /\ ntx = 3
    /\ Len(Chain(coll).ids) = 3
    /\ \A id \in Buckets(coll) : Len(coll[id].b.EventRefs) = 1
    /\ <<"obj", 3>> \notin Range(coll[HeadID(coll)].b.EventRefs)

----------------------------------------------------------------------------
\* The head bucket and the bucket its Prev names.
HeadAndPrev(v) ==
    {HeadID(v)} \cup (IF v[HeadID(v)].b.Prev = <<>> THEN {} ELSE {v[HeadID(v)].b.Prev})

\* C23: when every event is within the window of decodeAndCheckEvent at the
\* time it is offered, the clock never goes backward and bucketMaxAge is the
\* window's length, the walk of an insertion stops at the head or at the
\* bucket the head's Prev names, and the accepted event is then referred to
\* by the head, by a new head or by the bucket the old head's Prev names.
C23_WalkOneBack ==
    [][(ntx' = ntx + 1 /\ last'.err = NoErr) =>
          LET k == last'.tx.ObjectID
              when == last'.tx.eventBuf.ev.When
          IN  /\ bucketMaxAge = maxPast
              /\ last'.now - maxPast <= when /\ when <= last'.now
              /\ HasHead(coll) =>
                     /\ Target(coll, when) \in HeadAndPrev(coll)
                     /\ \/ Holders(coll', k) = {Target(coll, when)}
                        \/ /\ HeadID(coll') \notin Buckets(coll)
                           /\ Holders(coll', k) = {HeadID(coll')}
              /\ ~HasHead(coll) => Holders(coll', k) = {HeadID(coll')}]_vars

\* The third event went one bucket back from the head, into a bucket above
\* the sentinel.
C23_Witness ==
    /\ LastAccepted
    /\ ntx = 3
    /\ Len(Chain(coll).ids) = 3
    /\ <<"obj", 3>> \in Range(coll[Chain(coll).ids[2]].b.EventRefs)

====
